---- MODULE Spec2Model ----
(***************************************************************************)
(* The deployment orchestrator of python-backend/models/                   *)
(* deployment_manager.py: DeploymentManager.deployments, the background    *)
(* task _execute_deployment that start_deployment spawns for each          *)
(* deployment, and the request handlers that run beside it on one asyncio  *)
(* event loop.  A coroutine runs without interruption until it reaches an  *)
(* await that suspends (asyncio.sleep); awaiting a coroutine that does not *)
(* suspend (_update_deployment_status, _validate_deployment) does not      *)
(* yield.  The variable running names the pipeline task that holds the     *)
(* event loop between two suspensions.                                     *)
(*                                                                         *)
(* The session registry of python-backend/models/collaboration_manager.py: *)
(* CollaborationManager.sessions, .participants and .session_locks.  No    *)
(* handler of the registry reaches an await that suspends: the body of     *)
(* every "async with self.session_locks[...]" is free of awaits, so a lock *)
(* is free whenever a handler gets to it, acquiring a free asyncio.Lock    *)
(* does not yield, and cleanup_inactive_sessions awaits only               *)
(* _remove_session, which does not suspend.  Each handler is therefore one *)
(* step of the event loop.  get_session_history, which reads a session     *)
(* and writes nothing, is left out.                                        *)
(*                                                                         *)
(* The specifications: Spec (FairSpec with fairness) runs the deployment   *)
(* orchestrator, ObservedSpec runs it with callers that read status and    *)
(* logs, PairSpec (FairPairSpec with fairness) runs the pipeline tasks of  *)
(* two deployments side by side, ReadSpec applies the read handlers of the *)
(* orchestrator to deployment maps of several records, CollabSpec runs the *)
(* session registry, RegistrySpec runs it beside the handlers that read one*)
(* deployment.                                                             *)
(***************************************************************************)
EXTENDS Integers, Sequences, FiniteSets, TLC

VARIABLES
    deployments,  \* self.deployments: deployment id -> DeploymentStatus
    tasks,        \* deployment id -> the arguments of its pipeline task and
                  \* the place (pc) where the task is suspended or running
    running,      \* the pipeline task that holds the event loop, if any
    now,          \* the latest reading of datetime.now()
    response,     \* what the call made by the latest step returned or raised
    held,         \* the object a caller keeps from its latest read of the
                  \* orchestrator
    sessions,     \* self.sessions: session id -> CollaborationSession
    participants, \* self.participants: session id -> participant id -> Participant
    session_locks,\* self.session_locks: session id -> asyncio.Lock
    acquired,     \* the session ids whose lock the latest step acquired
    issued        \* how many session ids and participant ids uuid4 has issued

\* the session registry
collab_vars == <<sessions, participants, session_locks, issued>>

vars == <<deployments, tasks, running, now, response, held,
          sessions, participants, session_locks, acquired, issued>>

(* ------------------------------ bounds --------------------------------- *)

\* how many deployments start_deployment may create
MaxDeployments == 1

\* the largest reading of the clock; later readings repeat it
MaxTime == 1

\* how many cancel_deployment calls may take effect
MaxCancels == 2

\* how many deployments the maps hold that the read handlers are applied to
MaxListed == 3

\* how many sessions create_session may create
MaxSessions == 2

\* how many participants join_session may create, over all sessions
MaxParticipants == 2

(* ------------------------------ values --------------------------------- *)

\* Optional[T]: None is the empty sequence, a value v is <<v>>
None == <<>>

Some(v) == <<v>>

\* the elements of a list
Range(seq) == {seq[i] : i \in 1..Len(seq)}

\* the event loop is idle: no pipeline task is between two suspensions
Idle == {}

DeployIds == 1..MaxDeployments

TerminalStatuses == {"success", "failed", "cancelled"}

RunningStatuses == {"pending", "building", "deploying"}

\* text is a sequence of one-character strings
UpperCase ==
    <<"A","B","C","D","E","F","G","H","I","J","K","L","M",
      "N","O","P","Q","R","S","T","U","V","W","X","Y","Z">>

LowerCase ==
    <<"a","b","c","d","e","f","g","h","i","j","k","l","m",
      "n","o","p","q","r","s","t","u","v","w","x","y","z">>

RECURSIVE Flatten(_)
Flatten(ss) ==
    IF ss = <<>> THEN <<>> ELSE Head(ss) \o Flatten(Tail(ss))

\* str.lower() on ASCII text
lower(s) ==
    [i \in 1..Len(s) |->
        IF \E k \in 1..26 : UpperCase[k] = s[i]
        THEN LowerCase[CHOOSE k \in 1..26 : UpperCase[k] = s[i]]
        ELSE s[i]]

\* str.replace(old, new) for one-character old and new
replace(s, old, new) ==
    [i \in 1..Len(s) |-> IF s[i] = old THEN new ELSE s[i]]

\* str.endswith(suffix)
endswith(s, suffix) ==
    /\ Len(suffix) <= Len(s)
    /\ SubSeq(s, Len(s) - Len(suffix) + 1, Len(s)) = suffix

\* the url_pattern of supported_providers: literal segments around the
\* replacement field {project}
supported_providers ==
    [vercel       |-> [name |-> "Vercel",
                       url_pattern |-> <<"https://", "{project}", ".vercel.app">>],
     netlify      |-> [name |-> "Netlify",
                       url_pattern |-> <<"https://", "{project}", ".netlify.app">>],
     aws          |-> [name |-> "AWS S3",
                       url_pattern |-> <<"https://", "{project}", ".s3-website.amazonaws.com">>],
     heroku       |-> [name |-> "Heroku",
                       url_pattern |-> <<"https://", "{project}", ".herokuapp.com">>],
     digitalocean |-> [name |-> "DigitalOcean",
                       url_pattern |-> <<"https://", "{project}", ".ondigitalocean.app">>],
     firebase     |-> [name |-> "Firebase",
                       url_pattern |-> <<"https://", "{project}", ".web.app">>]]

\* url_pattern.format(project=...): every {project} field becomes the text
format(pattern, project) ==
    Flatten([i \in 1..Len(pattern) |->
                IF pattern[i] = "{project}" THEN project ELSE <<pattern[i]>>])

\* the slug with the underscores left in place
project_slug_SpacesOnly(project_name) ==
    replace(lower(project_name), " ", "-")

\* project_name.lower().replace(" ", "-").replace("_", "-")
project_slug(project_name) ==
    replace(replace(lower(project_name), " ", "-"), "_", "-")

deployment_url(provider, project_name) ==
    format(supported_providers[provider].url_pattern, project_slug(project_name))

(* ------------------------------ inputs --------------------------------- *)

F_index == <<"i","n","d","e","x",".","h","t","m","l">>
F_json == <<"a",".","j","s","o","n">>
F_md == <<"a",".","m","d">>
F_package == <<"p","a","c","k","a","g","e",".","j","s","o","n">>

\* files: file name -> content
FilesOf(names) == [n \in names |-> "<html></html>"]

Request(provider, project_name, names, config) ==
    [provider |-> provider, project_name |-> project_name,
     files |-> FilesOf(names), config |-> config]

NoConfig == <<>>

\* the calls of start_deployment the model makes
Requests ==
    {Request("vercel", <<"M","y"," ","A","p","p">>, {F_index}, NoConfig),
     Request("firebase", <<"a","_","B">>, {F_package, F_md},
             [build_command |-> "npm run build"]),
     Request("vercel", <<"B","a","d">>, {}, NoConfig),
     Request("netlify", <<"a","_","B">>, {F_json, F_md}, NoConfig),
     Request("gcp", <<"M","y"," ","A","p","p">>, {F_index}, NoConfig)}

(* --------------------------- pure functions ---------------------------- *)

\* the validation without the check for a web project file
validate_deployment_NoTypeCheck(files, config) ==
    IF DOMAIN files = {}
    THEN [valid |-> FALSE, error |-> "No files provided"]
    ELSE [valid |-> TRUE, error |-> ""]

validate_deployment(files, config) ==
    LET has_html == \E filename \in DOMAIN files : endswith(filename, <<".","h","t","m","l">>)
        has_js == \E filename \in DOMAIN files : endswith(filename, <<".","j","s">>)
        has_package_json == F_package \in DOMAIN files
    IN  IF DOMAIN files = {}
        THEN [valid |-> FALSE, error |-> "No files provided"]
        ELSE IF ~(has_html \/ has_js \/ has_package_json)
        THEN [valid |-> FALSE, error |-> "No recognizable web project files found"]
        ELSE [valid |-> TRUE, error |-> ""]

\* dict.get(key, default)
get(dict, key, default) == IF key \in DOMAIN dict THEN dict[key] ELSE default

\* _build_project after its asyncio.sleep(3)
build_project(files, config) ==
    LET build_command == get(config, "build_command", "")
        build_logs ==
            IF build_command # ""
            THEN <<<<"Running: ", build_command>>,
                   <<"Installing dependencies...">>,
                   <<"Compiling assets...">>,
                   <<"Optimizing for production...">>,
                   <<"Build completed successfully!">>>>
            ELSE <<<<"No build command specified, using static files">>,
                   <<"Preparing static assets...">>,
                   <<"Static build completed!">>>>
        artifacts ==
            [name \in {"index.html", "style.css", "script.js"} |->
                IF name = "index.html"
                THEN get(files, F_index, "<html><body><h1>Hello World</h1></body></html>")
                ELSE IF name = "style.css"
                THEN "body { font-family: Arial, sans-serif; }"
                ELSE "console.log('App loaded');"]
    IN  [success |-> TRUE, error |-> "", artifacts |-> artifacts, logs |-> build_logs]

\* _deploy_to_provider after its asyncio.sleep(4), for a provider of the table
deploy_to_provider(provider, project_name, artifacts, config) ==
    LET provider_info == supported_providers[provider]
    IN  [success |-> TRUE,
         logs |-> <<<<"Connecting to ", provider_info.name, "...">>,
                    <<"Uploading files...">>,
                    <<"Uploaded ", Cardinality(DOMAIN artifacts), " files">>,
                    <<"Configuring CDN...">>,
                    <<"Setting up SSL certificate...">>,
                    <<"Deployment to ", provider_info.name, " completed!">>>>,
         provider |-> provider]

\* raise Exception(f"Validation failed: {error}") and str(e)
ValidationFailed(error) == <<"Validation failed: ", error>>

\* raise Exception(f"Build failed: {error}") and str(e)
BuildFailed(error) == <<"Build failed: ", error>>

\* str(KeyError(key))
KeyError(key) == <<"'", key, "'">>

(* ------------------------------- state --------------------------------- *)

\* datetime.now(): no earlier than the last reading
ClockReadings == {now, IF now < MaxTime THEN now + 1 ELSE now}

\* the record entered with the first stage already under way
DeploymentStatus_FirstStageRun(deployment_id, status, progress, logs, started_at) ==
    [deployment_id |-> deployment_id, status |-> "building", progress |-> 10,
     logs |-> <<<<"Validating project files...">>>>, url |-> None,
     error_message |-> None, started_at |-> started_at, completed_at |-> None]

DeploymentStatus(deployment_id, status, progress, logs, started_at) ==
    [deployment_id |-> deployment_id, status |-> status, progress |-> progress,
     logs |-> logs, url |-> None, error_message |-> None,
     started_at |-> started_at, completed_at |-> None]

uuid4 == Cardinality(DOMAIN deployments) + 1

\* what the step just taken returned to its caller; a step of a pipeline
\* task returns nothing
NoResponse ==
    [op |-> "none", arg |-> None, raised |-> FALSE, ret |-> None, alias |-> None]

\* the call op(arg) returned a new object with the value ret
Response(op, arg, ret) ==
    [op |-> op, arg |-> Some(arg), raised |-> FALSE, ret |-> Some(ret),
     alias |-> None]

\* the call op(arg) returned the log list of the record of deployment d, the
\* list object itself
ResponseLogs(op, arg, d) ==
    [op |-> op, arg |-> Some(arg), raised |-> FALSE,
     ret |-> Some(deployments[d].logs), alias |-> Some(d)]

\* the call op(arg) raised the exception e
Raised(op, arg, e) ==
    [op |-> op, arg |-> Some(arg), raised |-> TRUE, ret |-> e, alias |-> None]

CancelledLine == <<"Deployment cancelled by user">>

\* the cancel_deployment calls that have taken effect so far
Cancellations ==
    Cardinality({x \in UNION {{<<d, i>> : i \in 1..Len(deployments[d].logs)} :
                                d \in DOMAIN deployments} :
                    deployments[x[1]].logs[x[2]] = CancelledLine})

\* the caller holds no object
Nothing == [of |-> "none", alias |-> None, value |-> None]

\* CollaborationManager.__init__
CollabInit ==
    /\ sessions = <<>>
    /\ participants = <<>>
    /\ session_locks = <<>>
    /\ acquired = {}
    /\ issued = [sessions |-> 0, participants |-> 0]

Init ==
    /\ deployments = <<>>
    /\ tasks = <<>>
    /\ running = Idle
    /\ now = 0
    /\ response = NoResponse
    /\ held = Nothing
    /\ CollabInit

\* the new lines put in front of the log
update_deployment_status_Prepending(deps, deployment_id, status, progress, new_logs) ==
    IF deployment_id \in DOMAIN deps
    THEN [deps EXCEPT ![deployment_id].status = status,
                      ![deployment_id].progress = progress,
                      ![deployment_id].logs = new_logs \o @]
    ELSE deps

\* _update_deployment_status applied to the deployment map
update_deployment_status(deps, deployment_id, status, progress, new_logs) ==
    IF deployment_id \in DOMAIN deps
    THEN [deps EXCEPT ![deployment_id].status = status,
                      ![deployment_id].progress = progress,
                      ![deployment_id].logs = @ \o new_logs]
    ELSE deps

\* the failure recorded in every deployment
deployment_failed_Everywhere(deps, deployment_id, e, t) ==
    [d \in DOMAIN deps |->
        [deps[d] EXCEPT !.status = "failed",
                        !.error_message = Some(e),
                        !.completed_at = Some(t),
                        !.logs = Append(@, <<"Deployment failed: ", e>>)]]

\* the failure recorded with the progress set back to 0
deployment_failed_ProgressReset(deps, deployment_id, e, t) ==
    [deps EXCEPT ![deployment_id].status = "failed",
                 ![deployment_id].progress = 0,
                 ![deployment_id].error_message = Some(e),
                 ![deployment_id].completed_at = Some(t),
                 ![deployment_id].logs = Append(@, <<"Deployment failed: ", e>>)]

\* the failure recorded without the status
deployment_failed_StatusKept(deps, deployment_id, e, t) ==
    [deps EXCEPT ![deployment_id].error_message = Some(e),
                 ![deployment_id].completed_at = Some(t),
                 ![deployment_id].logs = Append(@, <<"Deployment failed: ", e>>)]

\* the except clause of _execute_deployment
deployment_failed(deps, deployment_id, e, t) ==
    [deps EXCEPT ![deployment_id].status = "failed",
                 ![deployment_id].error_message = Some(e),
                 ![deployment_id].completed_at = Some(t),
                 ![deployment_id].logs = Append(@, <<"Deployment failed: ", e>>)]

\* raise ValueError(f"Unsupported deployment provider: {provider}")
UnsupportedProvider(provider) ==
    <<"ValueError", "Unsupported deployment provider: ", provider>>

\* the provider check left out
Supported_Any(provider) == TRUE

\* provider in self.supported_providers
Supported(provider) == provider \in DOMAIN supported_providers

start_deployment(provider, project_name, files, config) ==
    /\ running = Idle
    /\ IF ~Supported(provider)
       THEN /\ response' = Raised("start_deployment", provider,
                                 UnsupportedProvider(provider))
            /\ UNCHANGED <<deployments, tasks, now>>
       ELSE /\ Cardinality(DOMAIN deployments) < MaxDeployments
            /\ \E t \in ClockReadings :
                 LET deployment_id == uuid4
                 IN  /\ now' = t
                     /\ deployments' =
                          [d \in DOMAIN deployments \cup {deployment_id} |->
                             IF d = deployment_id
                             THEN DeploymentStatus(deployment_id, "pending", 0, <<>>, t)
                             ELSE deployments[d]]
                     /\ tasks' =
                          [d \in DOMAIN tasks \cup {deployment_id} |->
                             IF d = deployment_id
                             THEN [pc |-> "start", provider |-> provider,
                                   project_name |-> project_name,
                                   files |-> files, config |-> config]
                             ELSE tasks[d]]
                     /\ response' = Response("start_deployment", provider, deployment_id)
    /\ UNCHANGED running

\* the pipeline task of d moves on to pc
Task(d, pc) == [tasks EXCEPT ![d].pc = pc]

\* _execute_deployment, from the start of the task to the first status update
execute_start(d) ==
    /\ running = Idle
    /\ d \in DOMAIN tasks
    /\ tasks[d].pc = "start"
    /\ deployments' = update_deployment_status(deployments, d, "building", 10,
                                               <<<<"Validating project files...">>>>)
    /\ tasks' = Task(d, "validate")
    /\ running' = {d}
    /\ response' = NoResponse
    /\ UNCHANGED now

\* step 1: _validate_deployment and the raise that ends the task
execute_validate(d) ==
    /\ running = {d}
    /\ tasks[d].pc = "validate"
    /\ LET validation_result == validate_deployment(tasks[d].files, tasks[d].config)
       IN  IF ~validation_result.valid
           THEN \E t \in ClockReadings :
                  /\ now' = t
                  /\ deployments' = deployment_failed(deployments, d,
                                        ValidationFailed(validation_result.error), t)
                  /\ tasks' = Task(d, "done")
                  /\ running' = Idle
           ELSE /\ tasks' = Task(d, "prepare")
                /\ UNCHANGED <<deployments, running, now>>
    /\ response' = NoResponse

\* step 2: the status update, then the task suspends in asyncio.sleep(2)
execute_prepare(d) ==
    /\ running = {d}
    /\ tasks[d].pc = "prepare"
    /\ deployments' = update_deployment_status(deployments, d, "building", 25,
                                               <<<<"Preparing build environment...">>>>)
    /\ tasks' = Task(d, "sleep_prepare")
    /\ running' = Idle
    /\ response' = NoResponse
    /\ UNCHANGED now

\* step 3: the status update, then _build_project suspends in asyncio.sleep(3)
execute_build(d) ==
    /\ running = Idle
    /\ d \in DOMAIN tasks
    /\ tasks[d].pc = "sleep_prepare"
    /\ deployments' = update_deployment_status(deployments, d, "building", 50,
                                               <<<<"Building project...">>>>)
    /\ tasks' = Task(d, "sleep_build")
    /\ response' = NoResponse
    /\ UNCHANGED <<running, now>>

\* _build_project returns; step 4: the status update, then
\* _deploy_to_provider suspends in asyncio.sleep(4)
execute_deploy(d) ==
    /\ running = Idle
    /\ d \in DOMAIN tasks
    /\ tasks[d].pc = "sleep_build"
    /\ LET build_result == build_project(tasks[d].files, tasks[d].config)
       IN  IF ~build_result.success
           THEN \E t \in ClockReadings :
                  /\ now' = t
                  /\ deployments' = deployment_failed(deployments, d,
                                        BuildFailed(build_result.error), t)
                  /\ tasks' = Task(d, "done")
           ELSE /\ deployments' =
                     update_deployment_status(deployments, d, "deploying", 75,
                         <<<<"Deploying to ", tasks[d].provider, "...">>>>)
                /\ tasks' = Task(d, "sleep_deploy")
                /\ UNCHANGED now
    /\ response' = NoResponse
    /\ UNCHANGED running

\* _deploy_to_provider returns; step 5: the status update, then the task
\* suspends in asyncio.sleep(2)
execute_finalize(d) ==
    /\ running = Idle
    /\ d \in DOMAIN tasks
    /\ tasks[d].pc = "sleep_deploy"
    /\ IF ~(tasks[d].provider \in DOMAIN supported_providers)
       THEN \E t \in ClockReadings :
              /\ now' = t
              /\ deployments' = deployment_failed(deployments, d,
                                    KeyError(tasks[d].provider), t)
              /\ tasks' = Task(d, "done")
       ELSE LET build_result == build_project(tasks[d].files, tasks[d].config)
                deploy_result == deploy_to_provider(tasks[d].provider,
                                     tasks[d].project_name, build_result.artifacts,
                                     tasks[d].config)
            IN  \* deploy_result is never read
                /\ deployments' =
                     update_deployment_status(deployments, d, "deploying", 90,
                                              <<<<"Configuring domain and CDN...">>>>)
                /\ tasks' = Task(d, "sleep_finalize")
                /\ UNCHANGED now
    /\ response' = NoResponse
    /\ UNCHANGED running

\* step 6: the deployment is complete and the task ends
execute_complete(d) ==
    /\ running = Idle
    /\ d \in DOMAIN tasks
    /\ tasks[d].pc = "sleep_finalize"
    /\ \E t \in ClockReadings :
         LET url == deployment_url(tasks[d].provider, tasks[d].project_name)
         IN  /\ now' = t
             /\ deployments' =
                  [deployments EXCEPT
                     ![d].status = "success",
                     ![d].progress = 100,
                     ![d].url = Some(url),
                     ![d].completed_at = Some(t),
                     ![d].logs = @ \o <<<<"Deployment completed successfully!">>,
                                        <<"Your app is live at: ", url>>>>]
    /\ tasks' = Task(d, "done")
    /\ response' = NoResponse
    /\ UNCHANGED running

\* a pending deployment taken not to be cancellable
Cancellable_NotPending(status) == status \in {"building", "deploying"}

\* the status check left out
Cancellable_AnyStatus(status) == TRUE

\* deployment.status in ["pending", "building", "deploying"]
Cancellable(status) == status \in {"pending", "building", "deploying"}

cancel_deployment(deployment_id) ==
    /\ running = Idle
    /\ IF deployment_id \notin DOMAIN deployments
       THEN /\ response' = Response("cancel_deployment", deployment_id, FALSE)
            /\ UNCHANGED <<deployments, now>>
       ELSE IF Cancellable(deployments[deployment_id].status)
       THEN \E t \in ClockReadings :
              /\ Cancellations < MaxCancels
              /\ now' = t
              /\ deployments' =
                   [deployments EXCEPT
                      ![deployment_id].status = "cancelled",
                      ![deployment_id].completed_at = Some(t),
                      ![deployment_id].logs = Append(@, CancelledLine)]
              /\ response' = Response("cancel_deployment", deployment_id, TRUE)
       ELSE /\ response' = Response("cancel_deployment", deployment_id, FALSE)
            /\ UNCHANGED <<deployments, now>>
    /\ UNCHANGED <<tasks, running>>

(* ------------------- the read handlers of the orchestrator -------------- *)

\* raise ValueError(f"Deployment {deployment_id} not found")
DeploymentNotFound(deployment_id) ==
    <<"ValueError", "Deployment ", deployment_id, " not found">>

\* dataclasses.asdict: a dict of the fields, lists and dicts copied in depth
asdict(obj) == [f \in DOMAIN obj |-> obj[f]]

\* The caller keeps the object the call returned: a new object with its own
\* value, or the log list of a record.  A call that raised returned nothing
\* to keep.
Kept(resp, before) ==
    IF resp.raised THEN before
    ELSE [of |-> resp.op, alias |-> resp.alias,
          value |-> IF resp.alias = None THEN resp.ret ELSE None]

\* what the caller reads in the object h it holds
Value(h) ==
    IF h.alias # None THEN deployments[h.alias[1]].logs ELSE h.value[1]

get_deployment_status(deployment_id) ==
    /\ running = Idle
    /\ IF deployment_id \notin DOMAIN deployments
       THEN response' = Raised("get_deployment_status", deployment_id,
                               DeploymentNotFound(deployment_id))
       ELSE LET deployment == deployments[deployment_id]
            IN  response' = Response("get_deployment_status", deployment_id,
                                     asdict(deployment))
    /\ UNCHANGED <<deployments, tasks, running, now>>

get_deployment_logs(deployment_id) ==
    /\ running = Idle
    /\ IF deployment_id \notin DOMAIN deployments
       THEN response' = Raised("get_deployment_logs", deployment_id,
                               DeploymentNotFound(deployment_id))
       ELSE response' = ResponseLogs("get_deployment_logs", deployment_id,
                                     deployment_id)
    /\ UNCHANGED <<deployments, tasks, running, now>>

\* list(self.deployments.values()): a dict keeps the order of insertion, and
\* the ids of the model are issued in that order
values(deps) == [i \in 1..Cardinality(DOMAIN deps) |-> deps[i]]

\* one step of the stable sort: x goes behind the records that start no
\* earlier than x
insert_by_started_at(sorted, x) ==
    LET k == Cardinality({i \in 1..Len(sorted) :
                            sorted[i].started_at >= x.started_at})
    IN  SubSeq(sorted, 1, k) \o <<x>> \o SubSeq(sorted, k + 1, Len(sorted))

\* the sort that puts the earliest start first
RECURSIVE sort_by_started_at_ascending(_)
sort_by_started_at_ascending(seq) ==
    IF seq = <<>> THEN <<>>
    ELSE LET rest == sort_by_started_at_ascending(SubSeq(seq, 1, Len(seq) - 1))
             x == seq[Len(seq)]
             k == Cardinality({i \in 1..Len(rest) :
                                 rest[i].started_at <= x.started_at})
         IN  SubSeq(rest, 1, k) \o <<x>> \o SubSeq(rest, k + 1, Len(rest))

\* deployments.sort(key=lambda d: d.started_at, reverse=True): latest start
\* first, records of equal start in the order they had
RECURSIVE sort_by_started_at(_)
sort_by_started_at(seq) ==
    IF seq = <<>> THEN <<>>
    ELSE insert_by_started_at(sort_by_started_at(SubSeq(seq, 1, Len(seq) - 1)),
                              seq[Len(seq)])

\* seq[:limit]
slice(seq, limit) ==
    IF limit >= 0
    THEN SubSeq(seq, 1, IF limit < Len(seq) THEN limit ELSE Len(seq))
    ELSE SubSeq(seq, 1, IF Len(seq) + limit > 0 THEN Len(seq) + limit ELSE 0)

list_deployments(limit) ==
    /\ running = Idle
    /\ LET sorted == sort_by_started_at(values(deployments))
           result == [i \in 1..Len(slice(sorted, limit)) |->
                        asdict(slice(sorted, limit)[i])]
       IN  response' = Response("list_deployments", limit, result)
    /\ UNCHANGED <<deployments, tasks, running, now>>

\* the steps of the deployment orchestrator; none of them touches the session
\* registry or an object a caller holds
Next ==
    \/ /\ \E r \in Requests :
            start_deployment(r.provider, r.project_name, r.files, r.config)
       /\ UNCHANGED <<held, collab_vars>>
       /\ acquired' = {}
    \/ /\ \E d \in DeployIds : execute_start(d)
       /\ UNCHANGED <<held, collab_vars>>
       /\ acquired' = {}
    \/ /\ \E d \in DeployIds : execute_validate(d)
       /\ UNCHANGED <<held, collab_vars>>
       /\ acquired' = {}
    \/ /\ \E d \in DeployIds : execute_prepare(d)
       /\ UNCHANGED <<held, collab_vars>>
       /\ acquired' = {}
    \/ /\ \E d \in DeployIds : execute_build(d)
       /\ UNCHANGED <<held, collab_vars>>
       /\ acquired' = {}
    \/ /\ \E d \in DeployIds : execute_deploy(d)
       /\ UNCHANGED <<held, collab_vars>>
       /\ acquired' = {}
    \/ /\ \E d \in DeployIds : execute_finalize(d)
       /\ UNCHANGED <<held, collab_vars>>
       /\ acquired' = {}
    \/ /\ \E d \in DeployIds : execute_complete(d)
       /\ UNCHANGED <<held, collab_vars>>
       /\ acquired' = {}
    \/ /\ \E d \in DeployIds : cancel_deployment(d)
       /\ UNCHANGED <<held, collab_vars>>
       /\ acquired' = {}

Spec == Init /\ [][Next]_vars

\* the orchestrator with callers that read a deployment between its steps
\* and keep nothing
ObservedNext ==
    \/ Next
    \/ /\ \E d \in DeployIds \cup {MaxDeployments + 1} : get_deployment_status(d)
       /\ UNCHANGED <<held, collab_vars>>
       /\ acquired' = {}
    \/ /\ \E d \in DeployIds \cup {MaxDeployments + 1} : get_deployment_logs(d)
       /\ UNCHANGED <<held, collab_vars>>
       /\ acquired' = {}

ObservedSpec == Init /\ [][ObservedNext]_vars

\* one deployment more than start_deployment may create
PairIds == 1..(MaxDeployments + 1)

\* The orchestrator after start_deployment has returned for each of PairIds,
\* with any of the given requests, and before a pipeline task has run.
PairStart(requests) ==
    /\ \E request \in [PairIds -> requests] :
         /\ deployments = [d \in PairIds |->
                             DeploymentStatus(d, "pending", 0, <<>>, 0)]
         /\ tasks = [d \in PairIds |->
                       [pc |-> "start", provider |-> request[d].provider,
                        project_name |-> request[d].project_name,
                        files |-> request[d].files, config |-> request[d].config]]
    /\ running = Idle
    /\ now = 0
    /\ response = NoResponse
    /\ held = Nothing
    /\ CollabInit

\* any of the requests start_deployment accepts
PairInit == PairStart({r \in Requests : Supported(r.provider)})

\* a request the validation accepts and one it rejects
EndingRequests ==
    {Request("vercel", <<"M","y"," ","A","p","p">>, {F_index}, NoConfig),
     Request("vercel", <<"B","a","d">>, {}, NoConfig)}

FairPairInit == PairStart(EndingRequests)

\* the pipeline task of d takes a step
Pipeline(d) ==
    /\ \/ execute_start(d)
       \/ execute_validate(d)
       \/ execute_prepare(d)
       \/ execute_build(d)
       \/ execute_deploy(d)
       \/ execute_finalize(d)
       \/ execute_complete(d)
    /\ UNCHANGED <<held, collab_vars>>
    /\ acquired' = {}

\* the pipeline tasks of the deployments run side by side, with calls of
\* cancel_deployment between their steps
PairNext ==
    \/ \E d \in PairIds : Pipeline(d)
    \/ /\ \E d \in PairIds : cancel_deployment(d)
       /\ UNCHANGED <<held, collab_vars>>
       /\ acquired' = {}

PairSpec == PairInit /\ [][PairNext]_vars

\* PairSpec with the event loop running every task that is ready
FairPairSpec ==
    /\ FairPairInit
    /\ [][PairNext]_vars
    /\ \A d \in PairIds : WF_vars(Pipeline(d))

\* the event loop runs every task that is ready: a pipeline task that can take
\* a step eventually takes it
FairSpec == Spec /\ \A d \in DeployIds : WF_vars(Pipeline(d))

(* ---------------- the read handlers on maps of several records ---------- *)

\* the line a caller appends to a log it holds
CallerLine == <<"appended by the caller">>

\* the latest step was the caller's own write to the object it holds
CallerWrote ==
    [op |-> "append", arg |-> None, raised |-> FALSE, ret |-> None,
     alias |-> None]

\* The caller appends a line to the log in the object it holds: to the list
\* get_deployment_logs returned, to the logs of the dict
\* get_deployment_status returned, to the logs of the first dict
\* list_deployments returned.
caller_appends ==
    /\ held # Nothing
    /\ IF held.alias # None
       THEN /\ CallerLine \notin {deployments[held.alias[1]].logs[i] :
                                    i \in 1..Len(deployments[held.alias[1]].logs)}
            /\ deployments' = [deployments EXCEPT
                                 ![held.alias[1]].logs = Append(@, CallerLine)]
            /\ UNCHANGED held
       ELSE /\ IF held.of = "list_deployments"
               THEN /\ held.value[1] # <<>>
                    /\ CallerLine \notin {held.value[1][1].logs[i] :
                                            i \in 1..Len(held.value[1][1].logs)}
                    /\ held' = [held EXCEPT
                                  !.value[1][1].logs = Append(@, CallerLine)]
               ELSE /\ CallerLine \notin {held.value[1].logs[i] :
                                            i \in 1..Len(held.value[1].logs)}
                    /\ held' = [held EXCEPT
                                  !.value[1].logs = Append(@, CallerLine)]
            /\ UNCHANGED deployments
    /\ response' = CallerWrote
    /\ UNCHANGED <<tasks, running, now, collab_vars>>
    /\ acquired' = {}

\* the task of a deployment made by the first request, not yet started
ListedTask ==
    [pc |-> "start", provider |-> "vercel",
     project_name |-> <<"M","y"," ","A","p","p">>,
     files |-> FilesOf({F_index}), config |-> NoConfig]

\* The maps of up to MaxListed deployments that start_deployment builds
\* before a pipeline task runs.  started_at is a reading of datetime.now(),
\* the local wall clock, which may be set back between two calls: the start
\* times come in any order.
ListedMaps ==
    UNION {{[d \in 1..n |-> DeploymentStatus(d, "pending", 0, <<>>, started_at[d])] :
              started_at \in [1..n -> 0..MaxTime]} : n \in 0..MaxListed}

\* the limits list_deployments is called with: counts, from none to more
\* than there are deployments
Limits == 0..(MaxListed + 1)

ReadInit ==
    /\ deployments \in ListedMaps
    /\ tasks = [d \in DOMAIN deployments |-> ListedTask]
    /\ running = Idle
    /\ now = MaxTime
    /\ response = NoResponse
    /\ held = Nothing
    /\ CollabInit

\* the read handlers, with a caller that keeps what they return and may
\* write to it
ReadNext ==
    \/ /\ \E d \in 1..(MaxListed + 1) : get_deployment_status(d)
       /\ held' = Kept(response', held)
       /\ UNCHANGED collab_vars
       /\ acquired' = {}
    \/ /\ \E d \in 1..(MaxListed + 1) : get_deployment_logs(d)
       /\ held' = Kept(response', held)
       /\ UNCHANGED collab_vars
       /\ acquired' = {}
    \/ /\ \E limit \in Limits : list_deployments(limit)
       /\ held' = Kept(response', held)
       /\ UNCHANGED collab_vars
       /\ acquired' = {}
    \/ caller_appends

ReadSpec == ReadInit /\ [][ReadNext]_vars

(* --------------------------- the session registry ----------------------- *)

SessionIds == 1..MaxSessions

ParticipantIds == 1..MaxParticipants

\* the arguments create_session is called with
SessionNames == {"demo"}

InitialCodes == {""}

\* the arguments join_session, update_code and update_cursor are called with
ParticipantNames == {"alice", "bob"}

Payloads == {"print(1)", "x = 2"}

CursorPositions == {[line |-> 2, column |-> 5]}

\* timeout_minutes of cleanup_inactive_sessions; the clock counts minutes
Timeouts == 0..(MaxTime - 1)

\* datetime.now() read after the reading t
ReadingsAfter(t) == {t, IF t < MaxTime THEN t + 1 ELSE t}

\* datetime.isoformat()
isoformat(t) == <<"isoformat", t>>

\* raise ValueError(f"Session {session_id} not found")
SessionNotFound(session_id) == <<"ValueError", "Session ", session_id, " not found">>

\* raise ValueError(f"Participant {participant_id} not in session")
ParticipantNotInSession(participant_id) ==
    <<"ValueError", "Participant ", participant_id, " not in session">>

CollaborationSession(id, name, code, created_at, last_activity) ==
    [id |-> id, name |-> name, code |-> code, language |-> "python",
     participants |-> <<>>, created_at |-> created_at,
     last_activity |-> last_activity, is_active |-> TRUE]

Participant(id, name, last_seen) ==
    [id |-> id, name |-> name, cursor_position |-> [line |-> 1, column |-> 1],
     last_seen |-> last_seen, is_active |-> TRUE]

\* asyncio.Lock(), not held
Lock == [locked |-> FALSE]

\* the lock is left held at the end of the block
release_Forgotten(locks, session_id) == locks

\* async with self.session_locks[session_id]: the lock is taken on entry
acquire(locks, session_id) == [locks EXCEPT ![session_id].locked = TRUE]

\* async with self.session_locks[session_id]: the lock is let go on exit
release(locks, session_id) == [locks EXCEPT ![session_id].locked = FALSE]

\* the block of "async with self.session_locks[session_id]", which has no
\* await in any of the three handlers that have one
locked_section(locks, session_id) ==
    release(acquire(locks, session_id), session_id)

\* the map m with the key k set to v
Put(m, k, v) == [x \in DOMAIN m \cup {k} |-> IF x = k THEN v ELSE m[x]]

\* the key kept
Del_Kept(m, k) == m

\* del m[k]
Del(m, k) == [x \in DOMAIN m \ {k} |-> m[x]]

\* the keys of a dict in the order of insertion: the ids of the model are
\* issued in increasing order
RECURSIVE keys(_)
keys(S) ==
    IF S = {} THEN <<>>
    ELSE LET k == CHOOSE x \in S : \A y \in S : x <= y
         IN  <<k>> \o keys(S \ {k})

\* [asdict(p) for p in participants.values()]
participant_dicts(ps) ==
    [i \in 1..Len(keys(DOMAIN ps)) |-> asdict(ps[keys(DOMAIN ps)[i]])]

\* len([p for p in participants.values() if p.is_active])
active_participants(ps) == Cardinality({p \in DOMAIN ps : ps[p].is_active})

\* the last element goes, whatever x is
remove_Last(list, x) == SubSeq(list, 1, Len(list) - 1)

\* list.remove(x): the first x goes
remove(list, x) ==
    LET i == CHOOSE k \in 1..Len(list) :
                /\ list[k] = x
                /\ \A j \in 1..(k - 1) : list[j] # x
    IN  SubSeq(list, 1, i - 1) \o SubSeq(list, i + 1, Len(list))

create_session(session_name, initial_code) ==
    /\ running = Idle
    /\ issued.sessions < MaxSessions
    /\ \E created_at \in ReadingsAfter(now) :
       \E last_activity \in ReadingsAfter(created_at) :
         LET session_id == issued.sessions + 1
             session == CollaborationSession(session_id, session_name,
                            initial_code, created_at, last_activity)
         IN  /\ issued' = [issued EXCEPT !.sessions = session_id]
             /\ sessions' = Put(sessions, session_id, session)
             /\ participants' = Put(participants, session_id, <<>>)
             /\ session_locks' = Put(session_locks, session_id, Lock)
             /\ acquired' = {}
             /\ now' = last_activity
             /\ response' = Response("create_session", session_name,
                     [session_id |-> session_id, session_name |-> session_name,
                      code |-> initial_code, participants |-> <<>>,
                      created_at |-> isoformat(created_at)])
    /\ UNCHANGED <<deployments, tasks, running, held>>

\* the session comes back to life when somebody joins
joined_Reactivated(session, participant_id, last_activity) ==
    [session EXCEPT !.participants = Append(@, participant_id),
                    !.last_activity = last_activity,
                    !.is_active = TRUE]

\* session.participants.append(participant_id)
\* session.last_activity = datetime.now()
joined(session, participant_id, last_activity) ==
    [session EXCEPT !.participants = Append(@, participant_id),
                    !.last_activity = last_activity]

join_session(session_id, participant_name) ==
    /\ running = Idle
    /\ IF session_id \notin DOMAIN sessions
       THEN /\ response' = Raised("join_session", <<session_id, participant_name>>,
                                 SessionNotFound(session_id))
            /\ acquired' = {}
            /\ UNCHANGED <<sessions, participants, session_locks, issued, now>>
       ELSE /\ issued.participants < MaxParticipants
            /\ ~session_locks[session_id].locked
            /\ session_locks' = locked_section(session_locks, session_id)
            /\ acquired' = {session_id}
            /\ \E last_seen \in ReadingsAfter(now) :
               \E last_activity \in ReadingsAfter(last_seen) :
                 LET participant_id == issued.participants + 1
                     participant == Participant(participant_id, participant_name,
                                                last_seen)
                     session == joined(sessions[session_id], participant_id,
                                       last_activity)
                     members == Put(participants[session_id], participant_id,
                                    participant)
                 IN  /\ issued' = [issued EXCEPT !.participants = participant_id]
                     /\ participants' = [participants EXCEPT ![session_id] = members]
                     /\ sessions' = [sessions EXCEPT ![session_id] = session]
                     /\ now' = last_activity
                     /\ response' =
                          Response("join_session", <<session_id, participant_name>>,
                              [participant_id |-> participant_id,
                               session |-> asdict(session),
                               current_code |-> session.code,
                               participants |-> participant_dicts(members)])
    /\ UNCHANGED <<deployments, tasks, running, held>>

\* the check for the participant left out
Member_Any(members, participant_id) == TRUE

\* participant_id in self.participants[session_id]
Member(members, participant_id) == participant_id \in DOMAIN members

\* the session is deactivated although participants remain
Deactivate_Always(list) == TRUE

\* if not session.participants
Deactivate(list) == list = <<>>

leave_session(session_id, participant_id) ==
    /\ running = Idle
    /\ IF \/ session_id \notin DOMAIN sessions
          \/ ~Member(participants[session_id], participant_id)
       THEN /\ response' = Response("leave_session", <<session_id, participant_id>>,
                                   FALSE)
            /\ acquired' = {}
            /\ UNCHANGED <<sessions, participants, session_locks, now>>
       ELSE /\ ~session_locks[session_id].locked
            /\ session_locks' = locked_section(session_locks, session_id)
            /\ acquired' = {session_id}
            /\ \E last_activity \in ReadingsAfter(now) :
                 LET list == IF participant_id \in Range(sessions[session_id].participants)
                             THEN remove(sessions[session_id].participants,
                                         participant_id)
                             ELSE sessions[session_id].participants
                 IN  /\ participants' =
                          [participants EXCEPT
                             ![session_id] = Del(@, participant_id)]
                     /\ sessions' =
                          [sessions EXCEPT
                             ![session_id].participants = list,
                             ![session_id].last_activity = last_activity,
                             ![session_id].is_active =
                                 IF Deactivate(list) THEN FALSE ELSE @]
                     /\ now' = last_activity
                     /\ response' = Response("leave_session",
                                             <<session_id, participant_id>>, TRUE)
    /\ UNCHANGED <<issued, deployments, tasks, running, held>>

\* the cursor stored and the participant marked as gone
moved_Deactivated(participant, cursor_position, last_seen) ==
    [participant EXCEPT !.cursor_position = cursor_position,
                        !.last_seen = last_seen,
                        !.is_active = FALSE]

\* participant.cursor_position = cursor_position
\* participant.last_seen = datetime.now()
moved(participant, cursor_position, last_seen) ==
    [participant EXCEPT !.cursor_position = cursor_position,
                        !.last_seen = last_seen]

\* the write lost
Written_Lost(code, new_code) == code

\* session.code = new_code
Written(code, new_code) == new_code

update_code(session_id, participant_id, new_code) ==
    /\ running = Idle
    /\ IF session_id \notin DOMAIN sessions
       THEN /\ response' = Raised("update_code",
                                 <<session_id, participant_id, new_code>>,
                                 SessionNotFound(session_id))
            /\ acquired' = {}
            /\ UNCHANGED <<sessions, participants, session_locks, now>>
       ELSE IF participant_id \notin DOMAIN participants[session_id]
       THEN /\ response' = Raised("update_code",
                                 <<session_id, participant_id, new_code>>,
                                 ParticipantNotInSession(participant_id))
            /\ acquired' = {}
            /\ UNCHANGED <<sessions, participants, session_locks, now>>
       ELSE /\ ~session_locks[session_id].locked
            /\ session_locks' = locked_section(session_locks, session_id)
            /\ acquired' = {session_id}
            /\ \E last_activity \in ReadingsAfter(now) :
               \E last_seen \in ReadingsAfter(last_activity) :
                 /\ sessions' =
                      [sessions EXCEPT
                         ![session_id].code = Written(@, new_code),
                         ![session_id].last_activity = last_activity]
                 /\ participants' =
                      [participants EXCEPT
                         ![session_id][participant_id].last_seen = last_seen]
                 /\ now' = last_seen
                 /\ response' =
                      Response("update_code",
                          <<session_id, participant_id, new_code>>,
                          [session_id |-> session_id, updated_code |-> new_code,
                           updated_by |-> participant_id,
                           timestamp |-> isoformat(last_activity)])
    /\ UNCHANGED <<issued, deployments, tasks, running, held>>

update_cursor(session_id, participant_id, cursor_position) ==
    /\ running = Idle
    /\ IF \/ session_id \notin DOMAIN sessions
          \/ participant_id \notin DOMAIN participants[session_id]
       THEN /\ response' = Response("update_cursor",
                                   <<session_id, participant_id>>, FALSE)
            /\ UNCHANGED <<participants, now>>
       ELSE \E last_seen \in ReadingsAfter(now) :
              /\ participants' =
                   [participants EXCEPT
                      ![session_id][participant_id] =
                          moved(@, cursor_position, last_seen)]
              /\ now' = last_seen
              /\ response' = Response("update_cursor",
                                      <<session_id, participant_id>>, TRUE)
    /\ acquired' = {}
    /\ UNCHANGED <<sessions, session_locks, issued, deployments, tasks, running,
                   held>>

\* the dict get_session_state returns
session_state(session_id) ==
    [session |-> asdict(sessions[session_id]),
     participants |-> participant_dicts(participants[session_id]),
     active_participants |-> active_participants(participants[session_id])]

\* the read counted as activity of the session
get_session_state_Touching(session_id) ==
    /\ running = Idle
    /\ IF session_id \notin DOMAIN sessions
       THEN /\ response' = Raised("get_session_state", session_id,
                                 SessionNotFound(session_id))
            /\ UNCHANGED <<sessions, now>>
       ELSE \E last_activity \in ReadingsAfter(now) :
              /\ sessions' = [sessions EXCEPT
                                ![session_id].last_activity = last_activity]
              /\ now' = last_activity
              /\ response' = Response("get_session_state", session_id,
                                      session_state(session_id))
    /\ acquired' = {}
    /\ UNCHANGED <<participants, session_locks, issued, deployments, tasks,
                   running, held>>

get_session_state(session_id) ==
    /\ running = Idle
    /\ IF session_id \notin DOMAIN sessions
       THEN response' = Raised("get_session_state", session_id,
                               SessionNotFound(session_id))
       ELSE response' = Response("get_session_state", session_id,
                                 session_state(session_id))
    /\ acquired' = {}
    /\ UNCHANGED <<collab_vars, now, deployments, tasks, running, held>>

\* every session is listed
Listed_All(session) == TRUE

\* if session.is_active
Listed(session) == session.is_active

\* the dict get_active_sessions appends for a session
session_summary(session) ==
    [session_id |-> session.id, name |-> session.name,
     participant_count |-> Len(session.participants),
     active_participants |-> active_participants(participants[session.id]),
     last_activity |-> isoformat(session.last_activity),
     created_at |-> isoformat(session.created_at)]

get_active_sessions ==
    /\ running = Idle
    /\ LET IsListed(session_id) == Listed(sessions[session_id])
           listed == SelectSeq(keys(DOMAIN sessions), IsListed)
       IN  response' = Response("get_active_sessions", None,
                           [i \in 1..Len(listed) |->
                              session_summary(sessions[listed[i]])])
    /\ acquired' = {}
    /\ UNCHANGED <<collab_vars, now, deployments, tasks, running, held>>

\* a session at the threshold goes as well
expired_AtThreshold(time_diff, timeout_minutes) == time_diff >= timeout_minutes

\* if time_diff > timeout_minutes
expired(time_diff, timeout_minutes) == time_diff > timeout_minutes

\* the locks of the removed sessions stay
del_locks_Kept(locks, ids) == locks

\* "if session_id in m: del m[session_id]" for each of the ids
del_each(m, ids) == [x \in DOMAIN m \ ids |-> m[x]]

\* if session_id in self.session_locks: del self.session_locks[session_id]
del_locks(locks, ids) == del_each(locks, ids)

\* cleanup_inactive_sessions with every _remove_session it awaits: neither
\* has an "async with", no lock is acquired
cleanup_inactive_sessions(timeout_minutes) ==
    /\ running = Idle
    /\ \E current_time \in ReadingsAfter(now) :
         LET sessions_to_remove ==
                 {session_id \in DOMAIN sessions :
                    expired(current_time - sessions[session_id].last_activity,
                            timeout_minutes)}
         IN  /\ sessions' = del_each(sessions, sessions_to_remove)
             /\ participants' = del_each(participants, sessions_to_remove)
             /\ session_locks' = del_locks(session_locks, sessions_to_remove)
             /\ now' = current_time
    /\ acquired' = {}
    /\ response' = Response("cleanup_inactive_sessions", timeout_minutes, None)
    /\ UNCHANGED <<issued, deployments, tasks, running, held>>

CollabNext ==
    \/ \E name \in SessionNames, code \in InitialCodes :
          create_session(name, code)
    \/ \E s \in SessionIds, name \in ParticipantNames : join_session(s, name)
    \/ \E s \in SessionIds, p \in ParticipantIds : leave_session(s, p)
    \/ \E s \in SessionIds, p \in ParticipantIds, code \in Payloads :
          update_code(s, p, code)
    \/ \E s \in SessionIds, p \in ParticipantIds, c \in CursorPositions :
          update_cursor(s, p, c)
    \/ \E s \in SessionIds : get_session_state(s)
    \/ get_active_sessions
    \/ \E timeout \in Timeouts : cleanup_inactive_sessions(timeout)

\* the session registry alone, no deployment started
CollabSpec == Init /\ [][CollabNext]_vars

\* The session registry starts empty, beside the deployment map with the one
\* record start_deployment has just entered.
RegistryInit ==
    /\ deployments = <<DeploymentStatus(1, "pending", 0, <<>>, 0)>>
    /\ tasks = <<ListedTask>>
    /\ running = Idle
    /\ now = 0
    /\ response = NoResponse
    /\ held = Nothing
    /\ CollabInit

\* the handlers of the session registry and the handlers that read one
\* deployment, with callers that keep nothing
RegistryNext ==
    \/ CollabNext
    \/ /\ \E d \in DeployIds \cup {MaxDeployments + 1} : get_deployment_status(d)
       /\ UNCHANGED <<held, collab_vars>>
       /\ acquired' = {}
    \/ /\ \E d \in DeployIds \cup {MaxDeployments + 1} : get_deployment_logs(d)
       /\ UNCHANGED <<held, collab_vars>>
       /\ acquired' = {}

RegistrySpec == RegistryInit /\ [][RegistryNext]_vars

TypeOK ==
    /\ DOMAIN deployments = DOMAIN tasks
    /\ DOMAIN deployments \subseteq DeployIds
    /\ running \subseteq DOMAIN tasks
    /\ Cardinality(running) <= 1
    /\ now \in 0..MaxTime
    /\ \A d \in DOMAIN deployments :
         /\ deployments[d].status \in RunningStatuses \cup TerminalStatuses
         /\ deployments[d].progress \in {0, 10, 25, 50, 75, 90, 100}

(* ------------------------------ claims --------------------------------- *)

Known == DOMAIN deployments

\* cancel_deployment(d) has returned True at least once: it alone appends
\* the cancellation line, and no line of a log is ever removed
WasCancelled(d) == CancelledLine \in Range(deployments[d].logs)

PipelineEnded(d) == tasks[d].pc = "done"

\* C1: once the status of a deployment is success, failed or cancelled, no
\* step changes it.
C1_TerminalStatusIsFinal ==
    [][\A d \in Known :
          deployments[d].status \in TerminalStatuses
              => deployments'[d].status = deployments[d].status]_vars

\* C2: a deployment cancelled before its pipeline has completed stays
\* cancelled: it is never success or failed afterwards, and the pipeline
\* performs no further stage, so the cancellation line stays the last line
\* of its log.
C2_CancelledStaysCancelled ==
    \A d \in Known :
        WasCancelled(d)
            => /\ deployments[d].status = "cancelled"
               /\ deployments[d].logs[Len(deployments[d].logs)] = CancelledLine

\* C3: the progress of a deployment never decreases, and it never changes
\* once the status is success, failed or cancelled.
C3_ProgressMonotoneThenFrozen ==
    [][\A d \in Known :
          /\ deployments'[d].progress >= deployments[d].progress
          /\ deployments[d].status \in TerminalStatuses
                => deployments'[d].progress = deployments[d].progress]_vars

\* the step just taken is the call op(arg)
Called(op, arg) == response'.op = op /\ response'.arg = Some(arg)

\* C4: after a cancel_deployment(d) call has returned True, every later
\* cancel_deployment(d) call returns False.
C4_SecondCancelReturnsFalse ==
    [][\A d \in Known :
          Called("cancel_deployment", d) /\ WasCancelled(d)
              => ~response'.raised /\ response'.ret = Some(FALSE)]_vars

\* C5: cancel_deployment(d) returns True exactly when d is known and its
\* status is pending, building or deploying; it then sets the status to
\* cancelled, stamps completed_at, appends one cancellation line and leaves
\* the progress and everything else alone.  Otherwise it returns False and
\* the deployment map is unchanged.
C5_CancelContract ==
    [][\A d \in DeployIds :
          Called("cancel_deployment", d) =>
              IF d \in Known /\ deployments[d].status \in RunningStatuses
              THEN /\ response'.ret = Some(TRUE)
                   /\ deployments' =
                        [deployments EXCEPT
                           ![d].status = "cancelled",
                           ![d].completed_at = Some(now'),
                           ![d].logs = deployments[d].logs \o <<CancelledLine>>]
                   /\ deployments'[d].progress = deployments[d].progress
              ELSE /\ response'.ret = Some(FALSE)
                   /\ deployments' = deployments]_vars

C5_Witness ==
    \E d \in Known :
        /\ response = Response("cancel_deployment", d, TRUE)
        /\ deployments[d].status = "cancelled"
        /\ deployments[d].progress = 50

\* files holds no name ending in .html or .js and no package.json (an empty
\* files map among them)
NoWebFiles(files) ==
    \A filename \in DOMAIN files :
        /\ ~endswith(filename, <<".","h","t","m","l">>)
        /\ ~endswith(filename, <<".","j","s">>)
        /\ filename # <<"p","a","c","k","a","g","e",".","j","s","o","n">>

FailedInValidation(d) ==
    /\ PipelineEnded(d)
    /\ deployments[d].status = "failed"
    /\ deployments[d].error_message # None
    /\ deployments[d].error_message[1] # <<>>
    /\ deployments[d].progress = 10
    /\ deployments[d].url = None
    /\ deployments[d].completed_at # None

\* C6: a deployment whose files hold no web project file and which is never
\* cancelled eventually is failed with an error message, progress 10, no URL
\* and a completion time; no stage after the validation runs for it.
C6_InvalidFilesFail ==
    \A d \in DeployIds :
        /\ [](d \in Known /\ NoWebFiles(tasks[d].files)
                => /\ tasks[d].pc \in {"start", "validate", "done"}
                   /\ deployments[d].progress <= 10)
        /\ (d \in Known /\ NoWebFiles(tasks[d].files))
               ~> (d \in Known /\ (WasCancelled(d) \/ FailedInValidation(d)))

C6_Witness ==
    \E d \in Known :
        /\ NoWebFiles(tasks[d].files)
        /\ DOMAIN tasks[d].files # {}
        /\ ~WasCancelled(d)
        /\ FailedInValidation(d)

\* the project name in lower case with each space and underscore a hyphen
Slug(name) ==
    [i \in 1..Len(name) |->
        IF name[i] \in {" ", "_"} THEN "-"
        ELSE IF \E k \in 1..26 : UpperCase[k] = name[i]
             THEN LowerCase[CHOOSE k \in 1..26 : UpperCase[k] = name[i]]
             ELSE name[i]]

ExpectedUrl(provider, name) ==
    LET pattern == supported_providers[provider].url_pattern
    IN  <<pattern[1]>> \o Slug(name) \o <<pattern[3]>>

Succeeded(d) ==
    /\ PipelineEnded(d)
    /\ deployments[d].status = "success"
    /\ deployments[d].progress = 100
    /\ deployments[d].url = Some(ExpectedUrl(tasks[d].provider, tasks[d].project_name))
    /\ tasks[d].provider = "vercel" /\ tasks[d].project_name = <<"M","y"," ","A","p","p">>
          => deployments[d].url =
                Some(<<"https://", "m","y","-","a","p","p", ".vercel.app">>)

\* C7: a deployment whose files pass the validation and which is never
\* cancelled eventually is success with progress 100 and the URL of its
\* provider's template for the slug of its project name.
C7_ValidFilesSucceed ==
    \A d \in DeployIds :
        (d \in Known /\ ~NoWebFiles(tasks[d].files))
            ~> (d \in Known /\ (WasCancelled(d) \/ Succeeded(d)))

C7_Witness ==
    \E d \in Known :
        /\ Succeeded(d)
        /\ ~WasCancelled(d)
        /\ tasks[d].project_name = <<"a","_","B">>

\* C8: the URL is set only if the status is success, the error message only
\* if the status is failed.
C8_UrlAndErrorMatchStatus ==
    \A d \in Known :
        /\ deployments[d].url # None => deployments[d].status = "success"
        /\ deployments[d].error_message # None => deployments[d].status = "failed"

C8_Witness ==
    \E d \in Known :
        /\ deployments[d].url # None
        /\ WasCancelled(d)

\* C9: completed_at is None while the status is pending, building or
\* deploying and set when it is success, failed or cancelled.
C9_CompletedIffTerminal ==
    \A d \in Known :
        /\ deployments[d].status \in RunningStatuses => deployments[d].completed_at = None
        /\ deployments[d].status \in TerminalStatuses => deployments[d].completed_at # None

\* C10: start_deployment with a provider other than vercel, netlify, aws,
\* heroku, digitalocean and firebase fails with the unsupported-provider
\* error, adds no record, spawns no task and changes no deployment.
C10_UnsupportedProviderRejected ==
    [][\A r \in Requests :
          /\ Called("start_deployment", r.provider)
          /\ r.provider \notin {"vercel", "netlify", "aws", "heroku",
                                "digitalocean", "firebase"}
          => /\ response'.raised
             /\ response'.ret[1] = "ValueError"
             /\ response'.ret[2] = "Unsupported deployment provider: "
             /\ deployments' = deployments
             /\ tasks' = tasks]_vars

C10_Witness ==
    /\ response.op = "start_deployment"
    /\ response.raised
    /\ response.ret[1] = "ValueError"
    /\ Known # {}

\* C11: start_deployment with a supported provider, whatever the files and the
\* configuration, returns an id that no deployment had, having run no stage of
\* the pipeline: the record of that id is pending, at progress 0, with an
\* empty log, no url, no error and no completion time, its task has not
\* started, and no other record changes.  A step that fails a deployment
\* raises nothing to a caller and changes that record only.
C11_StartReturnsBeforePipeline ==
    [][/\ \A r \in Requests :
            /\ Called("start_deployment", r.provider)
            /\ r.provider \in {"vercel", "netlify", "aws", "heroku",
                                "digitalocean", "firebase"}
            => /\ ~response'.raised
               /\ LET id == response'.ret[1]
                  IN  /\ id \notin Known
                      /\ DOMAIN deployments' = Known \cup {id}
                      /\ deployments'[id].deployment_id = id
                      /\ deployments'[id].status = "pending"
                      /\ deployments'[id].progress = 0
                      /\ deployments'[id].logs = <<>>
                      /\ deployments'[id].url = None
                      /\ deployments'[id].error_message = None
                      /\ deployments'[id].completed_at = None
                      /\ tasks'[id].pc = "start"
                      /\ \A d \in Known : /\ deployments'[d] = deployments[d]
                                          /\ tasks'[d] = tasks[d]
       /\ \A d \in Known :
            /\ deployments[d].status # "failed"
            /\ deployments'[d].status = "failed"
            => /\ response' = NoResponse
               /\ deployments'[d].error_message # None
               /\ \A e \in Known \ {d} : deployments'[e] = deployments[e]]_vars

\* start_deployment has returned the id of a pending deployment whose files
\* will fail validation
C11_Witness ==
    /\ response.op = "start_deployment"
    /\ ~response.raised
    /\ response.ret[1] \in Known
    /\ deployments[response.ret[1]].status = "pending"
    /\ tasks[response.ret[1]].pc = "start"
    /\ ~validate_deployment(tasks[response.ret[1]].files,
                            tasks[response.ret[1]].config).valid

\* C12: a value a read handler returned is a copy: the caller's write to the
\* object it holds changes no record of the orchestrator and nothing of the
\* session registry, and as long as the caller holds the object and does not
\* write to it, no step changes what the caller reads in it.
C12_ReturnsAreCopies ==
    [][/\ response' = CallerWrote
          => /\ deployments' = deployments
             /\ UNCHANGED collab_vars
       /\ (held # Nothing /\ held' = held /\ response' # CallerWrote)
          => Value(held)' = Value(held)]_vars

Without(list, x) ==
    LET Other(y) == y # x IN SelectSeq(list, Other)

\* the session, participant, lock and deployment maps are as they were
MapsUnchanged ==
    /\ sessions' = sessions
    /\ participants' = participants
    /\ session_locks' = session_locks
    /\ deployments' = deployments

\* C13: get_session_state and get_deployment_status change nothing of the
\* two registries, return the state as it is, and return the same again
\* when called with the same id in the very next step.
C13_ReadsArePure ==
    [][/\ \A s \in SessionIds :
            Called("get_session_state", s)
            => /\ MapsUnchanged
               /\ UNCHANGED <<issued, tasks>>
               /\ s \in DOMAIN sessions
                  => /\ ~response'.raised
                     /\ response'.ret[1].session = sessions[s]
                     /\ Len(response'.ret[1].participants)
                          = Cardinality(DOMAIN participants[s])
                     /\ \A i \in 1..Len(response'.ret[1].participants) :
                          LET p == response'.ret[1].participants[i]
                          IN  p.id \in DOMAIN participants[s]
                              /\ p = participants[s][p.id]
               /\ (response.op = "get_session_state" /\ response.arg = Some(s))
                  => (response'.raised = response.raised
                      /\ response'.ret = response.ret)
       /\ \A d \in DeployIds \cup {MaxDeployments + 1} :
            Called("get_deployment_status", d)
            => /\ MapsUnchanged
               /\ UNCHANGED <<issued, tasks>>
               /\ d \in Known
                  => /\ ~response'.raised
                     /\ response'.ret[1] = deployments[d]
               /\ (response.op = "get_deployment_status" /\ response.arg = Some(d))
                  => (response'.raised = response.raised
                      /\ response'.ret = response.ret)]_vars

\* get_session_state has returned the state of a session with a participant
\* and written code
C13_Witness ==
    /\ response.op = "get_session_state"
    /\ ~response.raised
    /\ Len(response.ret[1].participants) >= 1
    /\ response.ret[1].session.code \in Payloads
    /\ Known # {}

\* C14: in every session the list of participant ids holds the keys of the
\* participant map of the session, each once.
C14_ListMatchesMap ==
    \A s \in DOMAIN sessions :
        /\ s \in DOMAIN participants
        /\ Range(sessions[s].participants) = DOMAIN participants[s]
        /\ Len(sessions[s].participants) = Cardinality(DOMAIN participants[s])

\* a second participant has joined a session
C14_Witness ==
    \E s \in DOMAIN sessions :
        /\ response.op = "join_session"
        /\ ~response.raised
        /\ sessions[s].participants = <<1, 2>>
        /\ DOMAIN participants[s] = {1, 2}

\* C15: join_session enters a participant id that the session did not have
\* at the end of the list and in the map, leave_session takes exactly that
\* id off the list and out of the map, and both leave the entries of the
\* other participants as they are: the list and the map without the id are
\* the same before the join, between the two, and after the leave.
C15_JoinThenLeaveRoundTrip ==
    [][/\ \A s \in SessionIds, name \in ParticipantNames :
            (Called("join_session", <<s, name>>) /\ ~response'.raised)
            => LET p == response'.ret[1].participant_id
               IN  /\ p \notin Range(sessions[s].participants)
                   /\ p \notin DOMAIN participants[s]
                   /\ sessions'[s].participants = Append(sessions[s].participants, p)
                   /\ Without(sessions'[s].participants, p) = sessions[s].participants
                   /\ DOMAIN participants'[s] = DOMAIN participants[s] \cup {p}
                   /\ \A q \in DOMAIN participants[s] :
                        participants'[s][q] = participants[s][q]
       /\ \A s \in SessionIds, p \in ParticipantIds :
            (Called("leave_session", <<s, p>>) /\ response'.ret = Some(TRUE))
            => /\ p \in Range(sessions[s].participants)
               /\ sessions'[s].participants = Without(sessions[s].participants, p)
               /\ DOMAIN participants'[s] = DOMAIN participants[s] \ {p}
               /\ \A q \in DOMAIN participants'[s] :
                    participants'[s][q] = participants[s][q]]_vars

\* participant 1 has left a session that participant 2 joined after it, and
\* the list is what it would be had 1 never joined
C15_Witness ==
    \E s \in DOMAIN sessions :
        /\ response = Response("leave_session", <<s, 1>>, TRUE)
        /\ sessions[s].participants = <<2>>
        /\ DOMAIN participants[s] = {2}
        /\ sessions[s].is_active

\* C16: the code of a session is always the whole payload of one update_code
\* call (or the code the session was created with); each update_code call
\* that returns leaves its own payload in the session, no other step changes
\* the code, so after any number of calls the code is the payload of the
\* call that held the lock last; get_session_state returns that code.
C16_LastWriterWins ==
    [][/\ \A s \in DOMAIN sessions' :
            sessions'[s].code \in InitialCodes \cup Payloads
       /\ \A s \in SessionIds, p \in ParticipantIds, code \in Payloads :
            (Called("update_code", <<s, p, code>>) /\ ~response'.raised)
            => /\ ~session_locks[s].locked
               /\ sessions'[s].code = code
               /\ response'.ret[1].updated_code = code
               /\ ~session_locks'[s].locked
       /\ \A s \in DOMAIN sessions \cap DOMAIN sessions' :
            sessions'[s].code # sessions[s].code
            => /\ response'.op = "update_code"
               /\ ~response'.raised
               /\ response'.arg[1][1] = s
               /\ response'.arg[1][3] = sessions'[s].code
       /\ \A s \in SessionIds :
            (Called("get_session_state", s) /\ ~response'.raised)
            => response'.ret[1].session.code = sessions[s].code]_vars

\* update_code by the second of two participants of a session, the one seen
\* last, has returned and the session holds its payload
C16_Witness ==
    \E s \in DOMAIN sessions :
        /\ response.op = "update_code"
        /\ ~response.raised
        /\ response.arg[1] = <<s, 2, "x = 2">>
        /\ sessions[s].code = "x = 2"
        /\ participants[s][1].last_seen < participants[s][2].last_seen
        /\ DOMAIN participants[s] = {1, 2}

\* the exception e is a not-found error
NotFound(e) ==
    /\ e[1] = "ValueError"
    /\ e[Len(e)] \in {" not found", " not in session"}

\* C17: a call with an id the registry does not know is answered with
\* not-found and changes none of the session, participant, lock and
\* deployment maps: join_session, update_code and get_session_state for an
\* unknown session, update_code for a participant not in the session,
\* get_deployment_status and get_deployment_logs for an unknown deployment
\* raise; leave_session and update_cursor for an unknown session or
\* participant return False, and so does leave_session for a participant
\* that has just left.
C17_UnknownIdsChangeNothing ==
    [][/\ \A s \in SessionIds, name \in ParticipantNames :
            (Called("join_session", <<s, name>>) /\ s \notin DOMAIN sessions)
            => (response'.raised /\ NotFound(response'.ret) /\ MapsUnchanged)
       /\ \A s \in SessionIds, p \in ParticipantIds, code \in Payloads :
            /\ Called("update_code", <<s, p, code>>)
            /\ \/ s \notin DOMAIN sessions
               \/ p \notin DOMAIN participants[s]
            => (response'.raised /\ NotFound(response'.ret) /\ MapsUnchanged)
       /\ \A s \in SessionIds :
            (Called("get_session_state", s) /\ s \notin DOMAIN sessions)
            => (response'.raised /\ NotFound(response'.ret) /\ MapsUnchanged)
       /\ \A d \in DeployIds \cup {MaxDeployments + 1} :
            /\ \/ Called("get_deployment_status", d)
               \/ Called("get_deployment_logs", d)
            /\ d \notin Known
            => (response'.raised /\ NotFound(response'.ret) /\ MapsUnchanged)
       /\ \A s \in SessionIds, p \in ParticipantIds :
            /\ \/ Called("leave_session", <<s, p>>)
               \/ Called("update_cursor", <<s, p>>)
            /\ \/ s \notin DOMAIN sessions
               \/ p \notin DOMAIN participants[s]
            => (~response'.raised /\ response'.ret = Some(FALSE) /\ MapsUnchanged)
       /\ \A s \in SessionIds, p \in ParticipantIds :
            /\ response = Response("leave_session", <<s, p>>, TRUE)
            /\ Called("leave_session", <<s, p>>)
            => (response'.ret = Some(FALSE) /\ MapsUnchanged)]_vars

\* leave_session has returned False for a participant that had left a
\* session in which another participant remains
C17_Witness ==
    \E s \in DOMAIN sessions :
        /\ response = Response("leave_session", <<s, 1>>, FALSE)
        /\ DOMAIN participants[s] = {2}
        /\ issued.participants = 2
        /\ Known # {}

\* C18: leave_session that takes the last participant off a session sets
\* is_active to False and keeps the session with its participant map and its
\* lock, leave_session that leaves a participant behind does not change
\* is_active, and get_session_state on a session of the registry succeeds,
\* active or not.
C18_LastLeaveDeactivates ==
    [][/\ \A s \in SessionIds, p \in ParticipantIds :
            (Called("leave_session", <<s, p>>) /\ response'.ret = Some(TRUE))
            => /\ s \in DOMAIN sessions'
               /\ s \in DOMAIN participants'
               /\ s \in DOMAIN session_locks'
               /\ IF Len(sessions[s].participants) = 1
                  THEN /\ sessions'[s].participants = <<>>
                       /\ ~sessions'[s].is_active
                  ELSE /\ sessions'[s].participants # <<>>
                       /\ sessions'[s].is_active = sessions[s].is_active
       /\ \A s \in SessionIds :
            (Called("get_session_state", s) /\ s \in DOMAIN sessions)
            => /\ ~response'.raised
               /\ response'.ret[1].session.is_active = sessions[s].is_active]_vars

\* get_session_state has returned the state of a session that its last
\* participant has left
C18_Witness ==
    /\ response.op = "get_session_state"
    /\ ~response.raised
    /\ ~response.ret[1].session.is_active
    /\ response.ret[1].participants = <<>>
    /\ issued.participants >= 1

\* C19: get_active_sessions returns one summary for each session whose
\* is_active is True and none for another session, and participant_count of
\* a summary is the length of the participant list of its session.
C19_ActiveSessionsListed ==
    [][Called("get_active_sessions", None)
       => LET result == response'.ret[1]
              listed == {result[i].session_id : i \in 1..Len(result)}
          IN  /\ ~response'.raised
              /\ listed = {s \in DOMAIN sessions : sessions[s].is_active}
              /\ Cardinality(listed) = Len(result)
              /\ \A i \in 1..Len(result) :
                   result[i].participant_count
                     = Len(sessions[result[i].session_id].participants)]_vars

\* get_active_sessions has returned the one active session of two, with its
\* participant
C19_Witness ==
    /\ response.op = "get_active_sessions"
    /\ Len(response.ret[1]) = 1
    /\ response.ret[1][1].participant_count = 1
    /\ Cardinality(DOMAIN sessions) = 2
    /\ \E s \in DOMAIN sessions : ~sessions[s].is_active

(* ------------------ further claims on the orchestrator ------------------ *)

\* the (status, progress) pairs of a run that is not cancelled, in order
StageSequence ==
    <<<<"pending", 0>>, <<"building", 10>>, <<"building", 25>>,
      <<"building", 50>>, <<"deploying", 75>>, <<"deploying", 90>>,
      <<"success", 100>>>>

\* C22: as long as a deployment has not been cancelled, a step leaves its
\* (status, progress) pair as it is, moves it to the pair that follows it in
\* (pending,0), (building,10), (building,25), (building,50), (deploying,75),
\* (deploying,90), (success,100), or moves it from a pair before the last to
\* failed with the progress kept.
C22_StagesInOrder ==
    [][\A d \in Known :
          ~WasCancelled(d)'
          => LET before == <<deployments[d].status, deployments[d].progress>>
                 after == <<deployments'[d].status, deployments'[d].progress>>
             IN  \/ after = before
                 \/ \E i \in 1..(Len(StageSequence) - 1) :
                      /\ before = StageSequence[i]
                      /\ \/ after = StageSequence[i + 1]
                         \/ after = <<"failed", before[2]>>]_vars

\* a deployment that was never cancelled has run through every stage
C22_Witness ==
    \E d \in Known :
        /\ ~WasCancelled(d)
        /\ deployments[d].status = "success"
        /\ deployments[d].progress = 100
        /\ Len(deployments[d].logs) = 7

\* seq is the beginning of longer
IsPrefix(seq, longer) ==
    /\ Len(seq) <= Len(longer)
    /\ SubSeq(longer, 1, Len(seq)) = seq

\* C27: no step of a pipeline and no cancel_deployment takes a line off a log
\* or changes one: the log before a step is the beginning of the log after
\* it, and get_deployment_logs returns the lines of the log in that order.
C27_LogAppendOnly ==
    [][/\ \A d \in Known : IsPrefix(deployments[d].logs, deployments'[d].logs)
       /\ \A d \in Known :
            Called("get_deployment_logs", d)
            => /\ ~response'.raised
               /\ response'.ret[1] = deployments[d].logs]_vars

\* get_deployment_logs has returned a log in which the line of a cancellation
\* stands between two lines of the pipeline
C27_Witness ==
    /\ response.op = "get_deployment_logs"
    /\ ~response.raised
    /\ \E i \in 2..(Len(response.ret[1]) - 1) : response.ret[1][i] = CancelledLine

\* what the pipeline of d ends in, by the files of d alone
OwnOutcome(d) ==
    IF NoWebFiles(tasks[d].files) THEN FailedInValidation(d) ELSE Succeeded(d)

\* C21: a step of the pipeline task of a deployment A, its failure included,
\* and cancel_deployment(A) change no field and not the task of another
\* deployment B, and the pipeline of B ends in success or in failed as the
\* files of B alone decide, whatever happens to A.
C21_DeploymentsIsolated ==
    [][/\ \A A, B \in Known :
            /\ A # B
            /\ \/ tasks'[A] # tasks[A]
               \/ Called("cancel_deployment", A)
            => /\ deployments'[B] = deployments[B]
               /\ tasks'[B] = tasks[B]
       /\ \A B \in Known : PipelineEnded(B)' => OwnOutcome(B)']_vars

\* a deployment has succeeded beside one that was cancelled and has failed
C21_Witness ==
    \E A, B \in Known :
        /\ A # B
        /\ WasCancelled(A)
        /\ FailedInValidation(A)
        /\ ~WasCancelled(B)
        /\ Succeeded(B)

\* C28: under fair scheduling of the pipeline tasks every deployment, with
\* cancel_deployment calls and the steps of the other pipelines in any order
\* between its steps, comes to the end of its pipeline task with the status
\* success, failed or cancelled, and stays there.
C28_PipelinesEnd ==
    <>[](\A d \in PairIds :
            /\ d \in Known
            /\ PipelineEnded(d)
            /\ deployments[d].status \in {"success", "failed", "cancelled"})

\* both pipeline tasks have ended, one of them after a cancellation that
\* came before its last step
C28_Witness ==
    /\ \A d \in PairIds : d \in Known /\ PipelineEnded(d)
    /\ \E d \in PairIds :
         /\ WasCancelled(d)
         /\ deployments[d].status = "success"

(* ------------------ further claims on the session registry ------------- *)

\* the step just taken is a call of cleanup_inactive_sessions
Reaped == response'.op = "cleanup_inactive_sessions"

\* the step just taken is the call op on the session s that returned
Returned(op, s) ==
    /\ response'.op = op
    /\ ~response'.raised
    /\ response'.arg[1][1] = s

\* C23: cleanup_inactive_sessions acquires the lock of a session before it
\* deletes the session, its participant map and its lock.
C23_ReapTakesTheLock ==
    [][\A s \in DOMAIN sessions :
          Reaped /\ s \notin DOMAIN sessions' => s \in acquired']_vars

\* C24: cleanup_inactive_sessions(timeout_minutes) removes exactly the
\* sessions whose last activity lies more than timeout_minutes before the
\* clock reading of the call, whatever their is_active and participants; the
\* record, the participant map and the lock of such a session go in the same
\* step, and the record, the participant map and the lock of every other
\* session stay as they were.
C24_ReapRemovesExactlyTheIdle ==
    [][\A timeout_minutes \in Timeouts :
          Called("cleanup_inactive_sessions", timeout_minutes)
          => LET idle == {s \in DOMAIN sessions :
                            now' - sessions[s].last_activity > timeout_minutes}
             IN  /\ DOMAIN sessions' = DOMAIN sessions \ idle
                 /\ DOMAIN participants' = DOMAIN participants \ idle
                 /\ DOMAIN session_locks' = DOMAIN session_locks \ idle
                 /\ \A s \in DOMAIN sessions \ idle :
                      /\ sessions'[s] = sessions[s]
                      /\ participants'[s] = participants[s]
                      /\ session_locks'[s] = session_locks[s]]_vars

\* cleanup_inactive_sessions(0) has removed session 1 and has kept session 2,
\* whose last activity is at the clock reading of the call and which has a
\* participant
C24_Witness ==
    /\ response = Response("cleanup_inactive_sessions", 0, None)
    /\ issued.sessions = 2
    /\ DOMAIN sessions = {2}
    /\ sessions[2].last_activity = now
    /\ sessions[2].participants # <<>>

\* C25: an update_cursor(s, p, position) call that returns True sets the
\* cursor position of p to the position given and the last_seen of p, and
\* changes nothing else: not the other fields of p, not the other
\* participants, not the code, participant list, is_active or last_activity
\* of any session, and no lock.
C25_CursorUpdateFrame ==
    [][\A s \in SessionIds, p \in ParticipantIds :
          (Called("update_cursor", <<s, p>>) /\ response'.ret = Some(TRUE))
          => /\ sessions' = sessions
             /\ session_locks' = session_locks
             /\ DOMAIN participants' = DOMAIN participants
             /\ \A t \in DOMAIN participants :
                  /\ DOMAIN participants'[t] = DOMAIN participants[t]
                  /\ \A q \in DOMAIN participants[t] :
                       <<t, q>> # <<s, p>>
                           => participants'[t][q] = participants[t][q]
             /\ participants'[s][p].cursor_position \in CursorPositions
             /\ participants'[s][p].last_seen \in ReadingsAfter(now)
             /\ participants'[s][p] =
                  [participants[s][p] EXCEPT
                     !.cursor_position = participants'[s][p].cursor_position,
                     !.last_seen = participants'[s][p].last_seen]]_vars

\* the cursor of one of two participants of a session has been moved
C25_Witness ==
    \E s \in DOMAIN sessions :
        /\ response = Response("update_cursor", <<s, 1>>, TRUE)
        /\ DOMAIN participants[s] = {1, 2}
        /\ participants[s][1].cursor_position = [line |-> 2, column |-> 5]
        /\ participants[s][2].cursor_position = [line |-> 1, column |-> 1]
        /\ participants[s][1].is_active

\* C26: no lock is held when a handler has returned, so no task is suspended
\* holding a lock and two tasks are never in the locked section of a session
\* together; a handler acquires at most the lock of the session it was
\* called for, finds it free and so never waits, for that session or for
\* another one, and only join_session, leave_session and update_code
\* acquire a lock.
C26_LocksExcludeAndNeverBlock ==
    [][/\ \A s \in DOMAIN session_locks' : ~session_locks'[s].locked
       /\ Cardinality(acquired') <= 1
       /\ \A s \in acquired' :
            /\ s \in DOMAIN session_locks
            /\ ~session_locks[s].locked
            /\ \/ Returned("join_session", s)
               \/ Returned("leave_session", s)
               \/ Returned("update_code", s)
            /\ \A t \in DOMAIN session_locks \ {s} :
                 /\ t \in DOMAIN session_locks'
                 /\ session_locks'[t] = session_locks[t]]_vars

\* the lock of session 2 has been acquired and released after the lock of
\* session 1 had been
C26_Witness ==
    /\ acquired = {2}
    /\ DOMAIN session_locks = {1, 2}
    /\ sessions[1].participants # <<>>
    /\ ~session_locks[1].locked
    /\ ~session_locks[2].locked

\* C29: no step sets is_active of a session from False to True; a
\* join_session on a session that is not active returns, adds the
\* participant and leaves the session not active, and get_active_sessions
\* lists no session that is not active.
C29_InactiveStaysInactive ==
    [][/\ \A s \in DOMAIN sessions \cap DOMAIN sessions' :
            ~sessions[s].is_active => ~sessions'[s].is_active
       /\ \A s \in DOMAIN sessions, name \in ParticipantNames :
            (Called("join_session", <<s, name>>) /\ ~sessions[s].is_active)
            => /\ ~response'.raised
               /\ Len(sessions'[s].participants)
                      = Len(sessions[s].participants) + 1
               /\ Cardinality(DOMAIN participants'[s])
                      = Cardinality(DOMAIN participants[s]) + 1
               /\ ~sessions'[s].is_active
       /\ response'.op = "get_active_sessions"
            => \A i \in 1..Len(response'.ret[1]) :
                 sessions[response'.ret[1][i].session_id].is_active]_vars

\* a participant has joined a session that its only participant had left
C29_Witness ==
    \E s \in DOMAIN sessions :
        /\ response.op = "join_session"
        /\ ~response.raised
        /\ sessions[s].participants = <<2>>
        /\ DOMAIN participants[s] = {2}
        /\ ~sessions[s].is_active

\* C30: self.sessions, self.participants and self.session_locks have the
\* same keys at all times; a key comes only with create_session, which adds
\* one id never issued before to all three, and a key goes only with
\* cleanup_inactive_sessions.
C30_ThreeMapsOneKeySet ==
    [][/\ DOMAIN sessions' = DOMAIN participants'
       /\ DOMAIN sessions' = DOMAIN session_locks'
       /\ DOMAIN sessions' \ DOMAIN sessions # {}
            => /\ response'.op = "create_session"
               /\ DOMAIN sessions' \ DOMAIN sessions = {issued'.sessions}
               /\ issued'.sessions > issued.sessions
               /\ DOMAIN sessions \subseteq DOMAIN sessions'
       /\ DOMAIN sessions \ DOMAIN sessions' # {}
            => /\ Reaped
               /\ DOMAIN sessions' \subseteq DOMAIN sessions]_vars

\* session 2 has been created after session 1 was removed, and has a
\* participant
C30_Witness ==
    /\ DOMAIN sessions = {2}
    /\ DOMAIN participants = {2}
    /\ DOMAIN session_locks = {2}
    /\ sessions[2].created_at = 1
    /\ response.op = "join_session"
    /\ ~response.raised

====
